---- MODULE Spec2Model ----
(***************************************************************************)
(* A model of rasteric/doublemap: a map with a reverse map.                *)
(*                                                                         *)
(*   - the core map            (src/map.go, constructor New),              *)
(*   - the value-receiver map  (src/unnamed/part_000, used as a zero       *)
(*                              value, with maybeInit and SetByValue),     *)
(*   - the parallel map        (src/parallel/dmap.go, sync.RWMutex).       *)
(*                                                                         *)
(* A Go map is a reference: a Map struct holds two references (kv, vk),    *)
(* either nil or the address of a map object.  The model keeps the map     *)
(* objects in `heap` and the structs as records of references, so that     *)
(* nil maps, struct copies (value receivers) and aliasing are expressible. *)
(***************************************************************************)
EXTENDS Integers, Sequences, FiniteSets, TLC

\* ------------------------------------------------------------------ bounds
NKeys == 2
NVals == 2
NThreads == 2

Keys == 1..NKeys
Vals == 1..NVals
Threads == 1..NThreads

\* The zero value of the key and value types (`var result V`).
Zero == 0
\* The nil map reference (the fields of Map[K, V]{}).
Nil == 0

VARIABLES
    heap,       \* map objects: reference -> contents (a function)
    m,          \* the Map under test: [kv |-> ref, vk |-> ref]
    m2,         \* the Map returned by the last Copy that returned
    hasCopy,    \* whether a Copy has returned
    panicked,   \* a runtime panic has aborted the program
    last,       \* the last call: operation, receiver, arguments, results
    pre,        \* heap as it was when the last call began (parallel map:
                \* when the write lock was last free)
    calls,      \* calls made so far: 0, 1, or 2 for two and more
    wholder,    \* parallel map: the thread inside mutex.Lock .. Unlock, or 0
    rcount,     \* parallel map: read locks held, per thread
    pc,         \* parallel map: where each thread is in its call
    call        \* parallel map: each thread's call, arguments and results

\* The variables of the sequential maps' callers, and those of the threads.
svars == <<m2, hasCopy, last, pre, calls>>

pvars == <<wholder, rcount, pc, call>>

vars == <<heap, m, panicked, svars, pvars>>

\* ------------------------------------------------------------ Go's maps
EmptyMap == <<>>

MapPut(f, x, y) == [z \in (DOMAIN f) \cup {x} |-> IF z = x THEN y ELSE f[z]]

MapDel(f, x) == [z \in (DOMAIN f) \ {x} |-> f[z]]

\* x, ok = mp[key]: reading a nil map finds nothing.
Lookup(hp, ref, x) ==
    IF ref # Nil /\ x \in DOMAIN hp[ref]
    THEN [ok |-> TRUE, val |-> hp[ref][x]]
    ELSE [ok |-> FALSE, val |-> Zero]

\* mp[x] = y: assignment to an entry of a nil map panics.
Assign(st, ref, x, y) ==
    IF st.panic THEN st
    ELSE IF ref = Nil THEN [st EXCEPT !.panic = TRUE]
    ELSE [st EXCEPT !.heap[ref] = MapPut(@, x, y)]

\* delete(mp, x): a no-op on a nil map and on an absent key.
Delete(st, ref, x) ==
    IF st.panic \/ ref = Nil THEN st
    ELSE [st EXCEPT !.heap[ref] = MapDel(@, x)]

\* for k := range mp { delete(mp, k) }
RECURSIVE DeleteAll(_, _, _)
DeleteAll(st, ref, order) ==
    IF order = <<>> THEN st
    ELSE DeleteAll(Delete(st, ref, Head(order)), ref, Tail(order))

\* The keys of a map object (none for a nil map), and the orders in which a
\* range statement may produce them: Go leaves the order unspecified.
KeysOf(hp, ref) == IF ref = Nil THEN {} ELSE DOMAIN hp[ref]

Orders(S) ==
    {q \in [1..Cardinality(S) -> S] : \A i, j \in DOMAIN q : i # j => q[i] # q[j]}

\* ------------------------------------------------------- core map: map.go
\* Map[K, V]{}: both references nil.
ZeroMap == [kv |-> Nil, vk |-> Nil]

\* New(): two fresh, empty map objects.
NewMap == [kv |-> 1, vk |-> 2]

NewHeap == <<EmptyMap, EmptyMap>>

Get(hp, h, key) == Lookup(hp, h.kv, key)

ByValue(hp, h, value) == Lookup(hp, h.vk, value)

\* A Set that first deletes the reverse entry of the value the key held;
\* C20 tells it from Set.
SetEvicting(st, h, key, value) ==
    LET g == Lookup(st.heap, h.kv, key)
        st1 == IF g.ok THEN Delete(st, h.vk, g.val) ELSE st
    IN  Assign(Assign(st1, h.kv, key, value), h.vk, value, key)

\* A faulty Set that forgets the reverse entry; C9 tells it from Set.
SetNoReverse(st, h, key, value) == Assign(st, h.kv, key, value)

Set(st, h, key, value) ==
    Assign(Assign(st, h.kv, key, value), h.vk, value, key)

\* A faulty Remove that reports true for an absent key; C11 tells it from
\* Remove.
RemoveReportsTrue(st, h, key) ==
    LET g == Get(st.heap, h, key)
    IN  IF g.ok
        THEN [st |-> Delete(Delete(st, h.kv, key), h.vk, g.val), ret |-> TRUE]
        ELSE [st |-> st, ret |-> TRUE]

\* A faulty Remove that keeps the reverse entry; C10 tells it from Remove.
RemoveKeepReverse(st, h, key) ==
    LET g == Get(st.heap, h, key)
    IN  IF g.ok THEN [st |-> Delete(st, h.kv, key), ret |-> TRUE]
        ELSE [st |-> st, ret |-> FALSE]

Remove(st, h, key) ==
    LET g == Get(st.heap, h, key)
    IN  IF g.ok
        THEN [st |-> Delete(Delete(st, h.kv, key), h.vk, g.val), ret |-> TRUE]
        ELSE [st |-> st, ret |-> FALSE]

\* A faulty RemoveByValue that keeps the forward entry; C19 tells it from
\* RemoveByValue.
RemoveByValueKeepForward(st, h, value) ==
    LET g == ByValue(st.heap, h, value)
    IN  IF g.ok THEN [st |-> Delete(st, h.vk, value), ret |-> TRUE]
        ELSE [st |-> st, ret |-> FALSE]

RemoveByValue(st, h, value) ==
    LET g == ByValue(st.heap, h, value)
    IN  IF g.ok
        THEN [st |-> Delete(Delete(st, h.kv, g.val), h.vk, value), ret |-> TRUE]
        ELSE [st |-> st, ret |-> FALSE]

\* for k, v := range src.kv { dst.kv[k] = v; dst.vk[v] = k }
RECURSIVE CopyLoop(_, _, _, _)
CopyLoop(st, src, dst, order) ==
    IF order = <<>> \/ st.panic THEN st
    ELSE LET k == Head(order)
             v == st.heap[src.kv][k]
         IN  CopyLoop(Assign(Assign(st, dst.kv, k, v), dst.vk, v, k),
                      src, dst, Tail(order))

\* A faulty Copy that returns a struct sharing the source's map objects
\* (m2 := *m); C5 tells it from Copy.
CopyAliased(st, h, order) == [st |-> st, m2 |-> h]

\* m2 := Map[K, V]{} is never given map objects: the loop body assigns to an
\* entry of a nil map.
Copy(st, h, order) ==
    [st |-> CopyLoop(st, h, ZeroMap, order), m2 |-> ZeroMap]

\* A faulty Walk that ignores what fn returns; C14 tells it from Walk.
WalkNoBreak(hp, h, order, stopAt) ==
    [i \in 1..Len(order) |-> <<order[i], hp[h.kv][order[i]]>>]

\* The visitor fn is modelled by the call on which it returns false
\* (stopAt = 0: it always returns true).  The result is the sequence of
\* pairs fn was invoked with.
Walk(hp, h, order, stopAt) ==
    LET n == IF stopAt = 0 \/ stopAt > Len(order) THEN Len(order) ELSE stopAt
    IN  [i \in 1..n |-> <<order[i], hp[h.kv][order[i]]>>]

\* A faulty Clear without its second loop; C13 tells it from Clear.
ClearForwardOnly(st, h, korder, vorder) == DeleteAll(st, h.kv, korder)

Clear(st, h, korder, vorder) ==
    DeleteAll(DeleteAll(st, h.kv, korder), h.vk, vorder)

\* -------------------------------------------------- the threads' state
\* A thread's call: the operation, its arguments, what it has read (ok, res),
\* whether it is inside the Get or ByValue that Remove or RemoveByValue
\* calls, and for Walk the pairs visited, the keys still to come, and
\* whether the visitor fn has called a mutating method of the same Map.
Call(op, key, val) ==
    [op |-> op, key |-> key, val |-> val, ok |-> FALSE, res |-> Zero,
     inner |-> FALSE, visits |-> <<>>, left |-> {}, fnCall |-> FALSE]

NoCall == Call("none", Zero, Zero)

\* No thread has called anything, the mutex is unlocked.
ThreadsInit ==
    /\ wholder = 0
    /\ rcount = [t \in Threads |-> 0]
    /\ pc = [t \in Threads |-> "idle"]
    /\ call = [t \in Threads |-> NoCall]

\* ------------------------------------------------- calls on the core map
\* The receivers a caller can name: m, and m2 once a Copy has returned it.
Receivers == IF hasCopy THEN {"m", "m2"} ELSE {"m"}

Handle(recv) == IF recv = "m" THEN m ELSE m2

\* The machine state a call starts in.
Cur == [heap |-> heap, panic |-> FALSE]

Rec(op, recv, key, val, ok, res, visits) ==
    [op |-> op, recv |-> recv, key |-> key, val |-> val,
     ok |-> ok, res |-> res, visits |-> visits]

NoRec == Rec("none", "m", Zero, Zero, FALSE, Zero, <<>>)

\* The caller is between two calls: the program runs on, and the record of
\* the call before has been dropped.
Ready == ~panicked /\ last = NoRec

\* A call ends: in the state st, with the record rec of what it returned.
Finish(st, rec) ==
    /\ heap' = st.heap
    /\ panicked' = st.panic
    /\ pre' = heap
    /\ last' = rec
    /\ calls' = IF calls = 0 THEN 1 ELSE 2
    /\ UNCHANGED pvars

DoGet(recv, key) ==
    /\ Ready
    /\ recv \in Receivers
    /\ LET g == Get(heap, Handle(recv), key)
       IN  Finish(Cur, Rec("Get", recv, key, Zero, g.ok, g.val, <<>>))
    /\ UNCHANGED <<m, m2, hasCopy>>

DoByValue(recv, value) ==
    /\ Ready
    /\ recv \in Receivers
    /\ LET g == ByValue(heap, Handle(recv), value)
       IN  Finish(Cur, Rec("ByValue", recv, Zero, value, g.ok, g.val, <<>>))
    /\ UNCHANGED <<m, m2, hasCopy>>

DoSet(recv, key, value) ==
    /\ Ready
    /\ recv \in Receivers
    /\ Finish(Set(Cur, Handle(recv), key, value),
              Rec("Set", recv, key, value, FALSE, Zero, <<>>))
    /\ UNCHANGED <<m, m2, hasCopy>>

DoRemove(recv, key) ==
    /\ Ready
    /\ recv \in Receivers
    /\ LET r == Remove(Cur, Handle(recv), key)
       IN  Finish(r.st, Rec("Remove", recv, key, Zero, r.ret, Zero, <<>>))
    /\ UNCHANGED <<m, m2, hasCopy>>

DoRemoveByValue(recv, value) ==
    /\ Ready
    /\ recv \in Receivers
    /\ LET r == RemoveByValue(Cur, Handle(recv), value)
       IN  Finish(r.st, Rec("RemoveByValue", recv, Zero, value, r.ret, Zero, <<>>))
    /\ UNCHANGED <<m, m2, hasCopy>>

DoCopy(recv) ==
    /\ Ready
    /\ recv \in Receivers
    /\ \E order \in Orders(KeysOf(heap, Handle(recv).kv)) :
         LET c == Copy(Cur, Handle(recv), order)
         IN  /\ Finish(c.st, Rec("Copy", recv, Zero, Zero, FALSE, Zero, <<>>))
             /\ m2' = IF c.st.panic THEN m2 ELSE c.m2
             /\ hasCopy' = (hasCopy \/ ~c.st.panic)
    /\ UNCHANGED m

DoWalk(recv) ==
    /\ Ready
    /\ recv \in Receivers
    /\ \E order \in Orders(KeysOf(heap, Handle(recv).kv)), stopAt \in 0..NKeys :
         Finish(Cur, Rec("Walk", recv, Zero, stopAt, FALSE, Zero,
                         Walk(heap, Handle(recv), order, stopAt)))
    /\ UNCHANGED <<m, m2, hasCopy>>

DoClear(recv) ==
    /\ Ready
    /\ recv \in Receivers
    /\ \E korder \in Orders(KeysOf(heap, Handle(recv).kv)),
          vorder \in Orders(KeysOf(heap, Handle(recv).vk)) :
         Finish(Clear(Cur, Handle(recv), korder, vorder),
                Rec("Clear", recv, Zero, Zero, FALSE, Zero, <<>>))
    /\ UNCHANGED <<m, m2, hasCopy>>

\* The caller goes on to its next call: the record of the last one is
\* dropped (last and pre describe one call only).
Forget ==
    /\ ~panicked
    /\ last # NoRec
    /\ last' = NoRec
    /\ pre' = heap
    /\ UNCHANGED <<heap, m, m2, hasCopy, panicked, calls, pvars>>

\* m := New()
Init ==
    /\ heap = NewHeap
    /\ m = NewMap
    /\ m2 = ZeroMap
    /\ hasCopy = FALSE
    /\ panicked = FALSE
    /\ last = NoRec
    /\ pre = NewHeap
    /\ calls = 0
    /\ ThreadsInit

Next ==
    \/ \E recv \in {"m", "m2"}, key \in Keys : DoGet(recv, key)
    \/ \E recv \in {"m", "m2"}, value \in Vals : DoByValue(recv, value)
    \/ \E recv \in {"m", "m2"}, key \in Keys, value \in Vals : DoSet(recv, key, value)
    \/ \E recv \in {"m", "m2"}, key \in Keys : DoRemove(recv, key)
    \/ \E recv \in {"m", "m2"}, value \in Vals : DoRemoveByValue(recv, value)
    \/ \E recv \in {"m", "m2"} : DoCopy(recv)
    \/ \E recv \in {"m", "m2"} : DoWalk(recv)
    \/ \E recv \in {"m", "m2"} : DoClear(recv)
    \/ Forget

Spec == Init /\ [][Next]_vars

\* The caller that keeps the documented precondition (values are unique)
\* and never re-binds a key: it calls Set(key, value) only when key has no
\* forward entry and value no reverse entry.
DoSetFresh(recv, key, value) ==
    /\ ~Get(heap, Handle(recv), key).ok
    /\ ~ByValue(heap, Handle(recv), value).ok
    /\ DoSet(recv, key, value)

NextUnique ==
    \/ \E key \in Keys : DoGet("m", key)
    \/ \E value \in Vals : DoByValue("m", value)
    \/ \E key \in Keys, value \in Vals : DoSetFresh("m", key, value)
    \/ \E key \in Keys : DoRemove("m", key)
    \/ \E value \in Vals : DoRemoveByValue("m", value)
    \/ DoWalk("m")
    \/ DoClear("m")
    \/ Forget

SpecUnique == Init /\ [][NextUnique]_vars

\* ------------------------------------- value-receiver map: part_000
\* Every method has a value receiver: it works on a copy of the caller's
\* struct, which shares the caller's map objects but not its two fields.

\* A Map whose two fields were set to map objects.  The fields are
\* unexported and this variant has no constructor, so only code of package
\* doublemap itself can build one; every other Map of this variant is the
\* zero value.
MadeMap == [kv |-> 1, vk |-> 2]

\* maybeInit assigns the new map objects to its own copy of the struct, so
\* the caller's kv and vk stay as they were; only the result reaches it.
maybeInit(h) == h.kv = Nil

ZGet(hp, h, key) ==
    IF maybeInit(h) THEN [ok |-> FALSE, val |-> Zero]
    ELSE Lookup(hp, h.kv, key)

ZByValue(hp, h, value) ==
    IF maybeInit(h) THEN [ok |-> FALSE, val |-> Zero]
    ELSE Lookup(hp, h.vk, value)

ZSet(st, h, key, value) ==
    Assign(Assign(st, h.kv, key, value), h.vk, value, key)

ZRemove(st, h, key) ==
    LET g == ZGet(st.heap, h, key)
    IN  IF g.ok
        THEN [st |-> Delete(Delete(st, h.kv, key), h.vk, g.val), ret |-> TRUE]
        ELSE [st |-> st, ret |-> FALSE]

ZRemoveByValue(st, h, value) ==
    LET g == ZByValue(st.heap, h, value)
    IN  IF g.ok
        THEN [st |-> Delete(Delete(st, h.kv, g.val), h.vk, value), ret |-> TRUE]
        ELSE [st |-> st, ret |-> FALSE]

ZSetByValue(st, h, value, key) ==
    LET b == ZByValue(st.heap, h, value)
        st1 == IF b.ok THEN ZRemove(st, h, b.val).st ELSE st
    IN  Assign(Assign(st1, h.kv, key, value), h.vk, value, key)

\* m2.maybeInit() leaves m2 the zero value.
ZCopy(st, h, order) ==
    IF maybeInit(h) THEN [st |-> st, m2 |-> ZeroMap]
    ELSE [st |-> CopyLoop(st, h, ZeroMap, order), m2 |-> ZeroMap]

ZWalk(hp, h, order, stopAt) == Walk(hp, h, order, stopAt)

ZDoGet(recv, key) ==
    /\ Ready
    /\ recv \in Receivers
    /\ LET g == ZGet(heap, Handle(recv), key)
       IN  Finish(Cur, Rec("Get", recv, key, Zero, g.ok, g.val, <<>>))
    /\ UNCHANGED <<m, m2, hasCopy>>

ZDoByValue(recv, value) ==
    /\ Ready
    /\ recv \in Receivers
    /\ LET g == ZByValue(heap, Handle(recv), value)
       IN  Finish(Cur, Rec("ByValue", recv, Zero, value, g.ok, g.val, <<>>))
    /\ UNCHANGED <<m, m2, hasCopy>>

ZDoSet(recv, key, value) ==
    /\ Ready
    /\ recv \in Receivers
    /\ Finish(ZSet(Cur, Handle(recv), key, value),
              Rec("Set", recv, key, value, FALSE, Zero, <<>>))
    /\ UNCHANGED <<m, m2, hasCopy>>

ZDoSetByValue(recv, value, key) ==
    /\ Ready
    /\ recv \in Receivers
    /\ Finish(ZSetByValue(Cur, Handle(recv), value, key),
              Rec("SetByValue", recv, key, value, FALSE, Zero, <<>>))
    /\ UNCHANGED <<m, m2, hasCopy>>

ZDoRemove(recv, key) ==
    /\ Ready
    /\ recv \in Receivers
    /\ LET r == ZRemove(Cur, Handle(recv), key)
       IN  Finish(r.st, Rec("Remove", recv, key, Zero, r.ret, Zero, <<>>))
    /\ UNCHANGED <<m, m2, hasCopy>>

ZDoRemoveByValue(recv, value) ==
    /\ Ready
    /\ recv \in Receivers
    /\ LET r == ZRemoveByValue(Cur, Handle(recv), value)
       IN  Finish(r.st, Rec("RemoveByValue", recv, Zero, value, r.ret, Zero, <<>>))
    /\ UNCHANGED <<m, m2, hasCopy>>

ZDoCopy(recv) ==
    /\ Ready
    /\ recv \in Receivers
    /\ \E order \in Orders(KeysOf(heap, Handle(recv).kv)) :
         LET c == ZCopy(Cur, Handle(recv), order)
         IN  /\ Finish(c.st, Rec("Copy", recv, Zero, Zero, FALSE, Zero, <<>>))
             /\ m2' = IF c.st.panic THEN m2 ELSE c.m2
             /\ hasCopy' = (hasCopy \/ ~c.st.panic)
    /\ UNCHANGED m

ZDoWalk(recv) ==
    /\ Ready
    /\ recv \in Receivers
    /\ \E order \in Orders(KeysOf(heap, Handle(recv).kv)), stopAt \in 0..NKeys :
         Finish(Cur, Rec("Walk", recv, Zero, stopAt, FALSE, Zero,
                         ZWalk(heap, Handle(recv), order, stopAt)))
    /\ UNCHANGED <<m, m2, hasCopy>>

\* var m Map[K, V] (the documented use), or a Map built inside the package.
InitZero ==
    /\ heap = NewHeap
    /\ m \in {ZeroMap, MadeMap}
    /\ m2 = ZeroMap
    /\ hasCopy = FALSE
    /\ panicked = FALSE
    /\ last = NoRec
    /\ pre = NewHeap
    /\ calls = 0
    /\ ThreadsInit

NextZero ==
    \/ \E recv \in {"m", "m2"}, key \in Keys : ZDoGet(recv, key)
    \/ \E recv \in {"m", "m2"}, value \in Vals : ZDoByValue(recv, value)
    \/ \E recv \in {"m", "m2"}, key \in Keys, value \in Vals : ZDoSet(recv, key, value)
    \/ \E recv \in {"m", "m2"}, key \in Keys, value \in Vals :
         ZDoSetByValue(recv, value, key)
    \/ \E recv \in {"m", "m2"}, key \in Keys : ZDoRemove(recv, key)
    \/ \E recv \in {"m", "m2"}, value \in Vals : ZDoRemoveByValue(recv, value)
    \/ \E recv \in {"m", "m2"} : ZDoCopy(recv)
    \/ \E recv \in {"m", "m2"} : ZDoWalk(recv)
    \/ Forget

SpecZero == InitZero /\ [][NextZero]_vars

\* ------------------------------------------- parallel map: parallel/dmap.go
\* The Map holds kv, vk and one sync.RWMutex.  Each thread runs one call at
\* a time; a step is a lock operation or the code between two of them.
\*
\* sync.RWMutex: Lock first excludes other writers and new readers, then
\* waits for the readers inside to leave; RLock waits while a writer is
\* inside or waiting.  It is not reentrant.
WriteOps == {"Set", "Remove", "RemoveByValue", "Clear"}

ReadOps == {"Get", "ByValue", "Copy", "Walk"}

\* The operations that call Get or ByValue while holding the write lock.
NestedOps == {"Remove", "RemoveByValue"}

\* The operations that take a key, and those that take a value.
KeyOps == {"Get", "Set", "Remove"}

ValueOps == {"ByValue", "Set", "RemoveByValue"}

\* A thread calls an operation; its first statement locks the mutex.
PCall(t, op, key, value) ==
    /\ ~panicked
    /\ pc[t] = "idle"
    /\ op \in WriteOps \cup ReadOps
    /\ call' = [call EXCEPT ![t] =
                   Call(op, IF op \in KeyOps THEN key ELSE Zero,
                            IF op \in ValueOps THEN value ELSE Zero)]
    /\ pc' = [pc EXCEPT ![t] = IF op \in WriteOps THEN "Lock" ELSE "RLock"]
    /\ UNCHANGED <<heap, m, panicked, svars, wholder, rcount>>

\* A faulty Lock that does not exclude other writers; C16 tells it from
\* PLock.
PLockNoExclusion(t) ==
    /\ ~panicked
    /\ pc[t] = "Lock"
    /\ wholder' = t
    /\ pc' = [pc EXCEPT ![t] = "LockWait"]
    /\ UNCHANGED <<heap, m, panicked, svars, rcount, call>>

\* m.mutex.Lock(), first half: no other writer is inside or waiting.
PLock(t) ==
    /\ ~panicked
    /\ pc[t] = "Lock"
    /\ wholder = 0
    /\ wholder' = t
    /\ pc' = [pc EXCEPT ![t] = "LockWait"]
    /\ UNCHANGED <<heap, m, panicked, svars, rcount, call>>

\* A faulty Lock that does not wait for the readers inside; C18 tells it
\* from PLockAcquire.
PLockAcquireEarly(t) ==
    /\ ~panicked
    /\ pc[t] = "LockWait"
    /\ pc' = [pc EXCEPT ![t] = IF call[t].op \in NestedOps THEN "RLock" ELSE "write"]
    /\ call' = [call EXCEPT ![t].inner = (call[t].op \in NestedOps)]
    /\ UNCHANGED <<heap, m, panicked, svars, wholder, rcount>>

\* m.mutex.Lock(), second half: the readers have left.  Remove and
\* RemoveByValue go on to call m.Get and m.ByValue.
PLockAcquire(t) ==
    /\ ~panicked
    /\ pc[t] = "LockWait"
    /\ \A u \in Threads : rcount[u] = 0
    /\ pc' = [pc EXCEPT ![t] = IF call[t].op \in NestedOps THEN "RLock" ELSE "write"]
    /\ call' = [call EXCEPT ![t].inner = (call[t].op \in NestedOps)]
    /\ UNCHANGED <<heap, m, panicked, svars, wholder, rcount>>

\* A faulty RLock that does not wait for the writer; C15 tells it from
\* PRLock.
PRLockBarging(t) ==
    /\ ~panicked
    /\ pc[t] = "RLock"
    /\ rcount' = [rcount EXCEPT ![t] = @ + 1]
    /\ pc' = [pc EXCEPT ![t] = "read"]
    /\ UNCHANGED <<heap, m, panicked, svars, wholder, call>>

\* m.mutex.RLock(): blocks while a writer is inside or waiting.
PRLock(t) ==
    /\ ~panicked
    /\ pc[t] = "RLock"
    /\ wholder = 0
    /\ rcount' = [rcount EXCEPT ![t] = @ + 1]
    /\ pc' = [pc EXCEPT ![t] = "read"]
    /\ UNCHANGED <<heap, m, panicked, svars, wholder, call>>

\* value, ok := m.kv[key]
PGet(hp, h, key) == Lookup(hp, h.kv, key)

\* key, ok := m.vk[value]
PByValue(hp, h, value) == Lookup(hp, h.vk, value)

\* m2 := Map[K, V]{}; for k, v := range m.kv { m2.kv[k] = v; m2.vk[v] = k }
PCopy(st, h, order) == CopyLoop(st, h, ZeroMap, order)

\* The keys a Walk has still to visit.
Todo(c) == IF c.visits = <<>> /\ c.left = {} THEN KeysOf(heap, m.kv) ELSE c.left

\* The code under the read lock.  Walk takes one step for each call of fn,
\* which answers whether to go on.
PRead(t) ==
    /\ ~panicked
    /\ pc[t] = "read"
    /\ LET c == call[t]
       IN  CASE c.op \in {"Get", "Remove"} ->
                  LET g == PGet(heap, m, c.key)
                  IN  /\ call' = [call EXCEPT ![t].ok = g.ok, ![t].res = g.val]
                      /\ pc' = [pc EXCEPT ![t] = "RUnlock"]
                      /\ UNCHANGED <<heap, panicked>>
             [] c.op \in {"ByValue", "RemoveByValue"} ->
                  LET g == PByValue(heap, m, c.val)
                  IN  /\ call' = [call EXCEPT ![t].ok = g.ok, ![t].res = g.val]
                      /\ pc' = [pc EXCEPT ![t] = "RUnlock"]
                      /\ UNCHANGED <<heap, panicked>>
             [] c.op = "Copy" ->
                  \E order \in Orders(KeysOf(heap, m.kv)) :
                      LET st == PCopy(Cur, m, order)
                      IN  /\ heap' = st.heap
                          /\ panicked' = st.panic
                          /\ call' = [call EXCEPT ![t].ok = ~st.panic]
                          /\ pc' = [pc EXCEPT ![t] = "RUnlock"]
             [] c.op = "Walk" ->
                  LET todo == Todo(c)
                  IN  IF todo = {}
                      THEN /\ pc' = [pc EXCEPT ![t] = "RUnlock"]
                           /\ UNCHANGED <<heap, panicked, call>>
                      ELSE \E k \in todo, goOn \in BOOLEAN :
                             /\ call' = [call EXCEPT
                                  ![t].visits = Append(@, <<k, heap[m.kv][k]>>),
                                  ![t].left = todo \ {k}]
                             /\ pc' = [pc EXCEPT ![t] =
                                  IF goOn /\ todo # {k} THEN "read" ELSE "RUnlock"]
                             /\ UNCHANGED <<heap, panicked>>
    /\ UNCHANGED <<m, svars, wholder, rcount>>

\* Walk calls fn(k, v), and fn calls Set, Remove, RemoveByValue or Clear of
\* the same Map: the first statement of each is m.mutex.Lock(), and the
\* thread still holds the read lock Walk took.
PVisitorCalls(t) ==
    /\ ~panicked
    /\ pc[t] = "read"
    /\ call[t].op = "Walk"
    /\ \E k \in Todo(call[t]) :
         call' = [call EXCEPT
                    ![t].visits = Append(@, <<k, heap[m.kv][k]>>),
                    ![t].left = Todo(call[t]) \ {k},
                    ![t].fnCall = TRUE]
    /\ pc' = [pc EXCEPT ![t] = "Lock"]
    /\ UNCHANGED <<heap, m, panicked, svars, wholder, rcount>>

\* defer m.mutex.RUnlock(); the call returns, or Remove and RemoveByValue
\* go on with what Get and ByValue returned.
PRUnlock(t) ==
    /\ pc[t] = "RUnlock"
    /\ rcount' = [rcount EXCEPT ![t] = @ - 1]
    /\ pc' = [pc EXCEPT ![t] = IF call[t].inner THEN "write" ELSE "idle"]
    /\ call' = [call EXCEPT ![t] = IF call[t].inner
                                    THEN [@ EXCEPT !.inner = FALSE]
                                    ELSE NoCall]
    /\ UNCHANGED <<heap, m, panicked, svars, wholder>>

\* m.kv[key] = value
PSetForward(st, h, key, value) == Assign(st, h.kv, key, value)

\* m.vk[value] = key
PSetReverse(st, h, key, value) == Assign(st, h.vk, value, key)

PSet(st, h, key, value) ==
    PSetReverse(PSetForward(st, h, key, value), h, key, value)

\* if ok { delete(m.kv, key); delete(m.vk, value) }
PRemoveForward(st, h, key, ok, value) ==
    IF ok THEN Delete(st, h.kv, key) ELSE st

PRemoveReverse(st, h, key, ok, value) ==
    IF ok THEN Delete(st, h.vk, value) ELSE st

PRemove(st, h, key, ok, value) ==
    PRemoveReverse(PRemoveForward(st, h, key, ok, value), h, key, ok, value)

PRemoveByValueForward(st, h, value, ok, key) ==
    IF ok THEN Delete(st, h.kv, key) ELSE st

PRemoveByValueReverse(st, h, value, ok, key) ==
    IF ok THEN Delete(st, h.vk, value) ELSE st

PRemoveByValue(st, h, value, ok, key) ==
    PRemoveByValueReverse(PRemoveByValueForward(st, h, value, ok, key),
                          h, value, ok, key)

\* for k := range m.kv { delete(m.kv, k) }
PClearForward(st, h, korder) == DeleteAll(st, h.kv, korder)

\* for k := range m.vk { delete(m.vk, k) }
PClearReverse(st, h, vorder) == DeleteAll(st, h.vk, vorder)

PClear(st, h, korder, vorder) ==
    PClearReverse(PClearForward(st, h, korder), h, vorder)

\* The code under the write lock, first half: the statement on m.kv.
PWrite(t) ==
    /\ ~panicked
    /\ pc[t] = "write"
    /\ LET c == call[t]
       IN  \E korder \in IF c.op = "Clear" THEN Orders(KeysOf(heap, m.kv)) ELSE {<<>>} :
             LET st == CASE c.op = "Set" -> PSetForward(Cur, m, c.key, c.val)
                         [] c.op = "Remove" ->
                              PRemoveForward(Cur, m, c.key, c.ok, c.res)
                         [] c.op = "RemoveByValue" ->
                              PRemoveByValueForward(Cur, m, c.val, c.ok, c.res)
                         [] c.op = "Clear" -> PClearForward(Cur, m, korder)
             IN  /\ heap' = st.heap
                 /\ panicked' = st.panic
    /\ pc' = [pc EXCEPT ![t] = "write2"]
    /\ UNCHANGED <<m, svars, wholder, rcount, call>>

\* The code under the write lock, second half: the statement on m.vk.
PWrite2(t) ==
    /\ ~panicked
    /\ pc[t] = "write2"
    /\ LET c == call[t]
       IN  \E vorder \in IF c.op = "Clear" THEN Orders(KeysOf(heap, m.vk)) ELSE {<<>>} :
             LET st == CASE c.op = "Set" -> PSetReverse(Cur, m, c.key, c.val)
                         [] c.op = "Remove" ->
                              PRemoveReverse(Cur, m, c.key, c.ok, c.res)
                         [] c.op = "RemoveByValue" ->
                              PRemoveByValueReverse(Cur, m, c.val, c.ok, c.res)
                         [] c.op = "Clear" -> PClearReverse(Cur, m, vorder)
             IN  /\ heap' = st.heap
                 /\ panicked' = st.panic
    /\ pc' = [pc EXCEPT ![t] = "Unlock"]
    /\ UNCHANGED <<m, svars, wholder, rcount, call>>

\* defer m.mutex.Unlock(); the call returns.
PUnlock(t) ==
    /\ pc[t] = "Unlock"
    /\ wholder' = 0
    /\ pc' = [pc EXCEPT ![t] = "idle"]
    /\ call' = [call EXCEPT ![t] = NoCall]
    /\ pre' = heap
    /\ UNCHANGED <<heap, m, panicked, m2, hasCopy, last, calls, rcount>>

\* m := parallel.New()
InitPar ==
    /\ heap = NewHeap
    /\ m = NewMap
    /\ m2 = ZeroMap
    /\ hasCopy = FALSE
    /\ panicked = FALSE
    /\ last = NoRec
    /\ pre = NewHeap
    /\ calls = 0
    /\ ThreadsInit

NextPar ==
    \E t \in Threads :
        \/ \E op \in WriteOps \cup ReadOps, key \in Keys, value \in Vals :
             PCall(t, op, key, value)
        \/ PLock(t)
        \/ PLockAcquire(t)
        \/ PRLock(t)
        \/ PRead(t)
        \/ PVisitorCalls(t)
        \/ PRUnlock(t)
        \/ PWrite(t)
        \/ PWrite2(t)
        \/ PUnlock(t)

SpecPar == InitPar /\ [][NextPar]_vars

\* The stress test of writers and readers: a thread writes (Set, Remove)
\* only its own key with its own value, so that writers' keys are disjoint
\* and their values distinct, and reads (Get, ByValue, Walk) anything; the
\* visitor of its Walk calls nothing.
StressOps == {"Set", "Remove", "Get", "ByValue", "Walk"}

PCallStress(t, op, key, value) ==
    /\ op \in StressOps
    /\ op \in WriteOps => (key = t /\ value = t)
    /\ PCall(t, op, key, value)

NextStress ==
    \E t \in Threads :
        \/ \E op \in StressOps, key \in Keys, value \in Vals :
             PCallStress(t, op, key, value)
        \/ PLock(t)
        \/ PLockAcquire(t)
        \/ PRLock(t)
        \/ PRead(t)
        \/ PRUnlock(t)
        \/ PWrite(t)
        \/ PWrite2(t)
        \/ PUnlock(t)

SpecStress == InitPar /\ [][NextStress]_vars

\* ================================================================ claims
NotFound == [ok |-> FALSE, val |-> Zero]

Found(x) == [ok |-> TRUE, val |-> x]

\* The receiver of the last call.
LastMap == Handle(last.recv)

\* forward and reverse of the Map h are exact inverses in the heap hp.
Bijection(hp, h) ==
    \A k \in Keys, v \in Vals :
        (Get(hp, h, k) = Found(v)) <=> (ByValue(hp, h, v) = Found(k))

\* C1 (as claimed): in every state reached from New() by Set and Remove
\* calls, Get(k) = (v, true) if and only if ByValue(v) = (k, true).
C1_Bijection == Bijection(heap, m)

\* C2 (as claimed): after Set(k, v_new) in a state where Get(k) was
\* (v_old, true) with v_old # v_new, ByValue(v_old) is (zero, false) and
\* ByValue(v_new) is (k, true).
C2_RebindCleansReverse ==
    LET old == Get(pre, LastMap, last.key)
    IN  (last.op = "Set" /\ ~panicked /\ old.ok /\ old.val # last.val)
        => /\ ByValue(heap, LastMap, old.val) = NotFound
           /\ ByValue(heap, LastMap, last.val) = Found(last.key)

\* C4 (as claimed): Copy returns without a panic, and every Get and ByValue
\* of the copy equals that of the source when Copy was called.
C4_CopyExact ==
    (last.op = "Copy" /\ last.recv = "m")
    => /\ ~panicked
       /\ \A k \in Keys : Get(heap, m2, k) = Get(pre, m, k)
       /\ \A v \in Vals : ByValue(heap, m2, v) = ByValue(pre, m, v)

Mutators == {"Set", "Remove", "RemoveByValue", "Clear"}

\* Every Get and ByValue of the Map h answers after the last call as before.
SameLookups(h) ==
    /\ \A k \in Keys : Get(heap, h, k) = Get(pre, h, k)
    /\ \A v \in Vals : ByValue(heap, h, v) = ByValue(pre, h, v)

\* C5: once m2 := m.Copy() has returned, a Set, Remove, RemoveByValue or
\* Clear on m2 leaves every Get and ByValue of m unchanged, and one on m
\* leaves every Get and ByValue of m2 unchanged.
C5_CopyIndependence ==
    (hasCopy /\ last.op \in Mutators)
    => /\ last.recv = "m2" => SameLookups(m)
       /\ last.recv = "m" => SameLookups(m2)

\* C5's case: a copy exists and a Set on the source has changed the source.
C5_Witness ==
    /\ hasCopy
    /\ last.op = "Set"
    /\ last.recv = "m"
    /\ ~panicked
    /\ Get(heap, m, last.key) # Get(pre, m, last.key)

\* C9: when Set(k, v) has returned, Get(k) is (v, true) and ByValue(v) is
\* (k, true), whatever k and v were bound to before.
C9_RoundTrip ==
    (last.op = "Set" /\ ~panicked)
    => /\ Get(heap, LastMap, last.key) = Found(last.val)
       /\ ByValue(heap, LastMap, last.val) = Found(last.key)

\* C9's case: Set(k, v) has returned where k held another value and v
\* belonged to another key.
C9_Witness ==
    /\ last.op = "Set"
    /\ ~panicked
    /\ Get(pre, LastMap, last.key).ok
    /\ Get(pre, LastMap, last.key).val # last.val
    /\ ByValue(pre, LastMap, last.val).ok
    /\ ByValue(pre, LastMap, last.val).val # last.key

C11_RemoveAbsent ==
    /\ (last.op = "Remove" /\ ~Get(pre, LastMap, last.key).ok)
       => (~last.ok /\ heap = pre)
    /\ (last.op = "Remove" /\ ~panicked)
       => ~Remove(Cur, LastMap, last.key).ret

\* C11's case: Remove of an absent key has returned on a map that holds
\* pairs.
C11_Witness ==
    /\ last.op = "Remove"
    /\ last.recv = "m"
    /\ ~Get(pre, m, last.key).ok
    /\ KeysOf(pre, m.kv) # {}
    /\ KeysOf(pre, m.vk) # {}

\* C13: after Clear both mappings are empty, every Get and ByValue reports
\* not found, Walk calls the visitor zero times, and the Map made by New is
\* in the state New left it in.
C13_ClearEmpties ==
    last.op = "Clear"
    => /\ KeysOf(heap, LastMap.kv) = {}
       /\ KeysOf(heap, LastMap.vk) = {}
       /\ \A k \in Keys : Get(heap, LastMap, k) = NotFound
       /\ \A v \in Vals : ByValue(heap, LastMap, v) = NotFound
       /\ \A order \in Orders(KeysOf(heap, LastMap.kv)), stopAt \in 0..NKeys :
            Walk(heap, LastMap, order, stopAt) = <<>>
       /\ last.recv = "m" => (heap = NewHeap /\ m = NewMap)

\* C13's case: Clear on a map with more reverse than forward entries (a key
\* was re-bound before).
C13_Witness ==
    /\ last.op = "Clear"
    /\ last.recv = "m"
    /\ Cardinality(KeysOf(pre, m.vk)) > Cardinality(KeysOf(pre, m.kv))
    /\ KeysOf(pre, m.kv) # {}

\* C14: Walk calls the visitor with stored pairs of forward only, never
\* twice with the same key; a visitor that always returns true is called
\* once for each pair, and one that returns false on its s-th call is
\* called s times (or once per pair, if there are fewer than s).
C14_Walk ==
    last.op = "Walk"
    => LET ks == KeysOf(heap, LastMap.kv)
           n == Cardinality(ks)
           vis == last.visits
           s == last.val
       IN  /\ \A i \in DOMAIN vis :
                /\ vis[i][1] \in ks
                /\ vis[i][2] = heap[LastMap.kv][vis[i][1]]
           /\ \A i, j \in DOMAIN vis : i # j => vis[i][1] # vis[j][1]
           /\ s = 0 => Len(vis) = n
           /\ s > 0 => Len(vis) = (IF s < n THEN s ELSE n)

\* C14's case: on a map of two pairs, the visitor returned false on its
\* first call.
C14_Witness ==
    /\ last.op = "Walk"
    /\ last.val = 1
    /\ Len(last.visits) = 1
    /\ Cardinality(KeysOf(heap, LastMap.kv)) > 1

\* C19: when Set is only called for a key without forward entry and a value
\* without reverse entry, forward and reverse are inverses of each other
\* and have as many entries, after any Set, Remove, RemoveByValue or Clear.
C19_RestrictedBijection ==
    /\ Bijection(heap, m)
    /\ Cardinality(KeysOf(heap, m.kv)) = Cardinality(KeysOf(heap, m.vk))

\* C19's case: RemoveByValue has removed one pair of several.
C19_Witness ==
    /\ last.op = "RemoveByValue"
    /\ last.ok
    /\ KeysOf(heap, m.kv) # {}

\* C20: Set(k, v) leaves the forward entry of every other key and the
\* reverse entry of every other value as they were; Get and ByValue change
\* nothing.
C20_Frame ==
    /\ last.op = "Set"
       => /\ \A k \in Keys \ {last.key} :
               Get(heap, LastMap, k) = Get(pre, LastMap, k)
          /\ \A v \in Vals \ {last.val} :
               ByValue(heap, LastMap, v) = ByValue(pre, LastMap, v)
    /\ last.op \in {"Get", "ByValue"} => heap = pre

\* C20's case: Set(k, v) where v belonged to another key, which keeps its
\* forward entry, and k held another value, which keeps its reverse entry.
C20_Witness ==
    /\ last.op = "Set"
    /\ ~panicked
    /\ \E k \in Keys \ {last.key} :
         /\ ByValue(pre, LastMap, last.val) = Found(k)
         /\ Get(heap, LastMap, k) = Found(last.val)
    /\ \E v \in Vals \ {last.val} :
         /\ Get(pre, LastMap, last.key) = Found(v)
         /\ ByValue(heap, LastMap, v) = Found(last.key)

\* RemoveByValue on the core map: where ByValue(v) = (k, true) it returns
\* true and leaves ByValue(v) and Get(k) not found; where ByValue(v) finds
\* nothing it returns false and changes nothing.
CoreRemoveByValue ==
    LET old == ByValue(pre, LastMap, last.val)
    IN  last.op = "RemoveByValue"
        => IF old.ok
           THEN /\ last.ok
                /\ ByValue(heap, LastMap, last.val) = NotFound
                /\ Get(heap, LastMap, old.val) = NotFound
           ELSE ~last.ok /\ heap = pre

\* ---------------------------------------- claims on the value-receiver map
ZBijection(hp, h) ==
    \A k \in Keys, v \in Vals :
        (ZGet(hp, h, k) = Found(v)) <=> (ZByValue(hp, h, v) = Found(k))

\* C6 (as claimed): on the zero-value Map, whichever call comes first ends
\* without a panic, and a first Set(k, v) shows as Get(k) = (v, true).
C6_FreshSafe ==
    (calls = 1 /\ m = ZeroMap)
    => /\ ~panicked
       /\ last.op = "Set" => ZGet(heap, m, last.key) = Found(last.val)

WaitsFor(t) ==
    CASE pc[t] \in {"Lock", "RLock"} -> {wholder} \ {0}
      [] pc[t] = "LockWait" -> {u \in Threads : rcount[u] > 0}
      [] OTHER -> {}

\* C3 (as claimed): every call runs to completion; in particular no call
\* waits for a lock that the calling thread is itself holding (only that
\* thread could release it, so such a call never returns).
C3_NoSelfBlock == \A t \in Threads : t \notin WaitsFor(t)

\* A thread that waits for its own write lock stays where it is for ever.
SelfBlockIsForever ==
    [][\A t \in Threads : (pc[t] = "RLock" /\ wholder = t)
                          => (pc'[t] = "RLock" /\ wholder' = t)]_vars

\* The heap when the write lock was last free, as a machine state.
Before == [heap |-> pre, panic |-> FALSE]

\* Thread t is between Lock's return and Unlock.
InWrite(t) ==
    \/ pc[t] \in {"write", "write2", "Unlock"}
    \/ pc[t] \in {"RLock", "read", "RUnlock"} /\ call[t].inner

\* C12 (as claimed, parallel map): a RemoveByValue that has taken the write
\* lock goes on through ByValue to its deletes; when it is about to return
\* it has removed the pair that ByValue(v) found, or found none and changed
\* nothing.
C12_RemoveByValue ==
    \A t \in Threads :
        call[t].op = "RemoveByValue"
        => /\ pc[t] = "RLock" => wholder # t
           /\ pc[t] = "Unlock"
              => /\ heap = RemoveByValue(Before, m, call[t].val).st.heap
                 /\ call[t].ok = ByValue(pre, m, call[t].val).ok
                 /\ ByValue(heap, m, call[t].val) = NotFound
                 /\ call[t].ok => Get(heap, m, call[t].res) = NotFound

C16_Linearizable ==
    /\ \A t, u \in Threads :
         (t # u /\ InWrite(t)) => (~InWrite(u) /\ rcount[u] = 0)
    /\ (\A t \in Threads : pc[t] \notin {"write2", "Unlock"}) => heap = pre
    /\ \A t \in Threads :
         /\ (pc[t] = "RUnlock" /\ call[t].op \in {"Get", "Remove"})
            => [ok |-> call[t].ok, val |-> call[t].res] = Get(heap, m, call[t].key)
         /\ (pc[t] = "RUnlock" /\ call[t].op \in {"ByValue", "RemoveByValue"})
            => [ok |-> call[t].ok, val |-> call[t].res] = ByValue(heap, m, call[t].val)
         /\ (pc[t] = "Unlock" /\ call[t].op = "Set")
            => heap = Set(Before, m, call[t].key, call[t].val).heap
         /\ (pc[t] = "Unlock" /\ call[t].op = "Remove")
            => heap = Remove(Before, m, call[t].key).st.heap
         /\ (pc[t] = "Unlock" /\ call[t].op = "RemoveByValue")
            => heap = RemoveByValue(Before, m, call[t].val).st.heap
         /\ (pc[t] = "Unlock" /\ call[t].op = "Clear")
            => \A korder \in Orders(KeysOf(pre, m.kv)),
                  vorder \in Orders(KeysOf(pre, m.vk)) :
                 heap = Clear(Before, m, korder, vorder).heap

\* C16's case: a Set that changed the maps is about to unlock while another
\* thread's Get waits in RLock, and a third party could not tell the order.
C16_Witness ==
    \E w, r \in Threads :
        /\ pc[w] = "Unlock"
        /\ call[w].op = "Set"
        /\ heap # pre
        /\ pc[r] = "RLock"
        /\ call[r].op = "Get"

\* C17 (as claimed): used by one thread, the parallel map does what the
\* core map does: the code under the lock is the core map's, every result
\* is the core map's, and the thread never waits.
C17_SingleThreadSame ==
    \A t \in Threads :
        (\A u \in Threads \ {t} : pc[u] = "idle" /\ rcount[u] = 0)
        => /\ \A key \in Keys, value \in Vals :
                /\ PGet(heap, m, key) = Get(heap, m, key)
                /\ PByValue(heap, m, value) = ByValue(heap, m, value)
                /\ PSet(Cur, m, key, value) = Set(Cur, m, key, value)
           /\ (pc[t] = "RUnlock" /\ call[t].op = "Get")
              => [ok |-> call[t].ok, val |-> call[t].res] = Get(heap, m, call[t].key)
           /\ (pc[t] = "Unlock" /\ call[t].op = "Set")
              => heap = Set(Before, m, call[t].key, call[t].val).heap
           /\ ~call[t].fnCall => WaitsFor(t) = {}

\* Between the first call of the visitor and Walk's return.
Walking(t) == call[t].op = "Walk" /\ call[t].visits # <<>>

\* C18: while a Walk is between its first visit and its return, the thread
\* holds the read lock, no other thread is under the write lock, forward
\* and reverse are as they were at the first visit (the pairs visited are
\* still stored), and no step changes them; a Walk whose visitor has called
\* a mutating method is in that method's Lock and stays there.
C18_WalkHoldsReadLock ==
    /\ [](\A t \in Threads :
            Walking(t)
            => /\ rcount[t] > 0
               /\ \A u \in Threads \ {t} : ~InWrite(u)
               /\ heap = pre
               /\ \A i \in DOMAIN call[t].visits :
                    Get(heap, m, call[t].visits[i][1]) = Found(call[t].visits[i][2])
               /\ call[t].fnCall => pc[t] \in {"Lock", "LockWait"})
    /\ [][\A t \in Threads :
            Walking(t)
            => /\ heap' = heap
               /\ call[t].fnCall
                  => (call'[t].fnCall /\ pc'[t] \in {"Lock", "LockWait"})]_vars

\* C18's case: the visitor of a Walk has called a mutating method and waits
\* in its Lock for the readers (itself) to leave, and another thread's
\* mutating call waits behind it.
C18_Witness ==
    \E t, u \in Threads :
        /\ Walking(t)
        /\ call[t].fnCall
        /\ pc[t] = "LockWait"
        /\ pc[u] = "Lock"
        /\ call[u].op \in WriteOps

====
